---- MODULE Spec2Model ----
(***************************************************************************)
(* Model of build_wiktionary_lexicon.py: the template engine, the markup   *)
(* cleaner, the section / sense extractor and the page loop of main().     *)
(* Text is a TLA+ string; positions are 1-based where Python's are 0-based.*)
(***************************************************************************)
EXTENDS Integers, Sequences, FiniteSets, TLC

VARIABLES
    pc,             \* control location of the component that is running
    body, parts,    \* split_template_parts: its argument s and its result
    name, args, rendered,                 \* render_template
    s, max_passes, pass_no, i, out, changed,   \* replace_templates_nested
    x, cleaned, recleaned,                \* clean_wikitext and a second cleaning
    wikitext, english,                    \* extract_english_section
    lines, ln, current_pos, current_defs, senses,  \* extract_senses
    allowed_pos, max_defs_per_pos, dedupe, min_len, max_len,   \* args of main
    overwrite,
    stream,         \* what the XML parser has still to deliver
    total_pages, total_entries, total_defs_records, counts_by_len, defs_by_len,
    seen_words_by_len, word_files, def_files, manifest,
    root,           \* the page elements under the root of the parser's tree
    page_title, page_text   \* the locals title and text of the page loop

splitVars   == <<body, parts>>
renderVars  == <<name, args, rendered>>
expandVars  == <<s, max_passes, pass_no, i, out, changed>>
cleanVars   == <<x, cleaned, recleaned>>
sectionVars == <<wikitext, english>>
senseVars   == <<lines, ln, current_pos, current_defs, senses>>
cfgVars     == <<allowed_pos, max_defs_per_pos, dedupe, min_len, max_len,
                 overwrite>>
countVars   == <<total_pages, total_entries, total_defs_records, counts_by_len,
                 defs_by_len>>
fileVars    == <<seen_words_by_len, word_files, def_files>>
readerVars  == <<root, page_title, page_text>>
mainVars    == <<stream, countVars, fileVars, manifest, readerVars>>
vars == <<pc, splitVars, renderVars, expandVars, cleanVars, sectionVars,
          senseVars, cfgVars, mainVars>>

(***************************************************************************)
(* Strings.                                                                *)
(***************************************************************************)
Ch(t, p) == SubSeq(t, p, p)

From(t, p) == SubSeq(t, p, Len(t))

StartsWith(t, prefix, p) ==
    /\ p >= 1
    /\ p + Len(prefix) - 1 <= Len(t)
    /\ SubSeq(t, p, p + Len(prefix) - 1) = prefix

EndsWith(t, suffix) ==
    /\ Len(suffix) <= Len(t)
    /\ SubSeq(t, Len(t) - Len(suffix) + 1, Len(t)) = suffix

UPPER == "ABCDEFGHIJKLMNOPQRSTUVWXYZ"
LOWER == "abcdefghijklmnopqrstuvwxyz"
DIGITS == "0123456789"

InStr(c, t) == \E p \in 1..Len(t) : Ch(t, p) = c

IsAlpha(c) == InStr(c, UPPER) \/ InStr(c, LOWER)
IsAlnum(c) == IsAlpha(c) \/ InStr(c, DIGITS)
IsWordChar(c) == IsAlnum(c) \/ c = "_"
IsSpace(c) == c \in {" ", "\t", "\n", "\r", "\f"}

MapCh(c, from, to) ==
    IF InStr(c, from) THEN Ch(to, CHOOSE p \in 1..Len(from) : Ch(from, p) = c)
    ELSE c

\* character by character; the text is halved to keep the evaluation shallow
RECURSIVE MapStr(_, _, _)
MapStr(t, from, to) ==
    IF Len(t) <= 1 THEN MapCh(t, from, to)
    ELSE LET h == Len(t) \div 2 IN
         MapStr(SubSeq(t, 1, h), from, to) \o MapStr(From(t, h + 1), from, to)

Lower(t) == MapStr(t, UPPER, LOWER)
Upper(t) == MapStr(t, LOWER, UPPER)
Capitalize(t) == IF t = "" THEN "" ELSE Upper(Ch(t, 1)) \o Lower(From(t, 2))

RECURSIVE LStrip(_)
LStrip(t) == IF t # "" /\ IsSpace(Ch(t, 1)) THEN LStrip(From(t, 2)) ELSE t

RECURSIVE RStrip(_)
RStrip(t) ==
    IF t # "" /\ IsSpace(Ch(t, Len(t))) THEN RStrip(SubSeq(t, 1, Len(t) - 1))
    ELSE t

Strip(t) == RStrip(LStrip(t))

\* the least position >= p where needle starts in t, or 0
RECURSIVE Find(_, _, _)
Find(t, needle, p) ==
    IF p + Len(needle) - 1 > Len(t) THEN 0
    ELSE IF StartsWith(t, needle, p) THEN p
    ELSE Find(t, needle, p + 1)

Contains(t, needle) == Find(t, needle, 1) # 0

\* str.replace(old, new): left to right, non-overlapping
RECURSIVE Replace(_, _, _)
Replace(t, old, new) ==
    LET p == Find(t, old, 1) IN
    IF p = 0 THEN t
    ELSE SubSeq(t, 1, p - 1) \o new \o Replace(From(t, p + Len(old)), old, new)

\* WS_RE.sub(" ", t): every maximal run of whitespace becomes one space
RECURSIVE CollapseWs(_)
CollapseWs(t) ==
    IF t = "" THEN ""
    ELSE IF IsSpace(Ch(t, 1)) THEN " " \o CollapseWs(LStrip(t))
    ELSE Ch(t, 1) \o CollapseWs(From(t, 2))

\* MEANINGFUL_RE.search(t)
Meaningful(t) == \E p \in 1..Len(t) : IsAlnum(Ch(t, p))

RECURSIVE Join(_, _)
Join(seq, sep) ==
    IF seq = <<>> THEN ""
    ELSE IF Len(seq) = 1 THEN seq[1]
    ELSE seq[1] \o sep \o Join(Tail(seq), sep)

(***************************************************************************)
(* split_template_parts                                                    *)
(***************************************************************************)
RECURSIVE SplitLoop(_, _, _, _, _, _)
SplitLoop(t, p, depth_tpl, depth_link, buf, acc) ==
    IF p > Len(t) THEN Append(acc, Strip(buf))
    ELSE IF StartsWith(t, "{{", p)
        THEN SplitLoop(t, p + 2, depth_tpl + 1, depth_link, buf \o "{{", acc)
    ELSE IF StartsWith(t, "}}", p) /\ depth_tpl > 0
        THEN SplitLoop(t, p + 2, depth_tpl - 1, depth_link, buf \o "}}", acc)
    ELSE IF StartsWith(t, "[[", p)
        THEN SplitLoop(t, p + 2, depth_tpl, depth_link + 1, buf \o "[[", acc)
    ELSE IF StartsWith(t, "]]", p) /\ depth_link > 0
        THEN SplitLoop(t, p + 2, depth_tpl, depth_link - 1, buf \o "]]", acc)
    ELSE IF Ch(t, p) = "|" /\ depth_tpl = 0 /\ depth_link = 0
        THEN SplitLoop(t, p + 1, depth_tpl, depth_link, "", Append(acc, Strip(buf)))
    ELSE SplitLoop(t, p + 1, depth_tpl, depth_link, buf \o Ch(t, p), acc)

\* a split at every "|", whatever encloses it
RECURSIVE SplitFlat(_)
SplitFlat(t) ==
    IF Find(t, "|", 1) = 0 THEN <<Strip(t)>>
    ELSE <<Strip(SubSeq(t, 1, Find(t, "|", 1) - 1))>>
         \o SplitFlat(From(t, Find(t, "|", 1) + 1))

split_template_parts(t) == SplitLoop(t, 1, 0, 0, "", <<>>)

(***************************************************************************)
(* render_template                                                         *)
(***************************************************************************)
\* first_arg(ix): args[ix].strip() when ix is an index of args and that is
\* non-empty, else "".  It reads the raw args of render_template.
first_arg(a, ix) ==
    IF 0 <= ix /\ ix < Len(a) /\ Strip(a[ix + 1]) # "" THEN Strip(a[ix + 1])
    ELSE ""

drop_lang_prefix(a) ==
    IF a # <<>> /\ Lower(Strip(a[1])) \in {"en", "eng", "english"} THEN Tail(a)
    ELSE a

\* Python's `u or v` on strings
OrStr(u, v) == IF u # "" THEN u ELSE v

RECURSIVE StripNonEmpty(_)
StripNonEmpty(a) ==
    IF a = <<>> THEN <<>>
    ELSE IF Strip(Head(a)) # "" THEN <<Strip(Head(a))>> \o StripNonEmpty(Tail(a))
    ELSE StripNonEmpty(Tail(a))

MaxLabels == 6

LabelNames == {"lb", "lbl", "label", "labels"}

\* the relation and inflection templates, each with its phrase
RelationPhrase ==
    [n \in {"abbreviation of", "abbr of"} |-> "Abbreviation of"] @@
    [n \in {"initialism of", "init of"} |-> "Initialism of"] @@
    [n \in {"acronym of"} |-> "Acronym of"] @@
    [n \in {"alternative form of", "alternative spelling of", "alt form",
            "alt spelling"} |-> "Alternative form of"] @@
    [n \in {"misspelling of"} |-> "Misspelling of"] @@
    [n \in {"plural of", "pl of"} |-> "Plural of"] @@
    [n \in {"past of", "past tense of"} |-> "Past tense of"] @@
    [n \in {"present participle of", "pres part of"} |-> "Present participle of"] @@
    [n \in {"comparative of"} |-> "Comparative of"] @@
    [n \in {"superlative of"} |-> "Superlative of"]

ProperNames == {"surname", "given name"}
TaxonNames == {"taxlink", "taxfmt", "taxon", "taxlite"}
LinkNames == {"l", "link", "m", "mention"}
GlossNames == {"gloss"}

KnownNames == LabelNames \cup DOMAIN RelationPhrase \cup ProperNames
                \cup TaxonNames \cup LinkNames \cup GlossNames

render_label(a) ==
    LET labs == StripNonEmpty(drop_lang_prefix(a)) IN
    IF labs # <<>>
    THEN "(" \o Join(SubSeq(labs, 1, IF Len(labs) < MaxLabels THEN Len(labs)
                                      ELSE MaxLabels), ", ") \o ")"
    ELSE ""

render_relation(n, a) ==
    LET tgt == OrStr(first_arg(a, 0), first_arg(a, 1)) IN
    Strip(RelationPhrase[n] \o " " \o tgt)

render_gloss(a) ==
    LET g == first_arg(a, 0) IN IF g # "" THEN "(" \o g \o ")" ELSE ""

\* lines 249-254: both branches of `if args2` evaluate first_arg(0)
render_unknown(a) ==
    LET args2 == drop_lang_prefix(a) IN
    IF args2 # <<>> THEN first_arg(a, 0) ELSE first_arg(a, 0)

render_template(nm, a) ==
    LET n == Lower(Strip(nm)) IN
    IF n \in LabelNames THEN render_label(a)
    ELSE IF n \in DOMAIN RelationPhrase THEN render_relation(n, a)
    ELSE IF n \in ProperNames THEN Capitalize(nm)
    ELSE IF n \in TaxonNames THEN first_arg(a, 0)
    ELSE IF n \in LinkNames THEN first_arg(a, 0)
    ELSE IF n \in GlossNames THEN render_gloss(a)
    ELSE render_unknown(a)

(***************************************************************************)
(* replace_templates_nested                                                *)
(***************************************************************************)
DefaultMaxPasses == 4

\* lines 273-286: from the "{{" at p, the position after the matching "}}"
\* and the depth there (0), or the end of t and a positive depth
RECURSIVE MatchClose(_, _, _)
MatchClose(t, j, depth) ==
    IF j > Len(t) THEN [j |-> j, depth |-> depth]
    ELSE IF StartsWith(t, "{{", j) THEN MatchClose(t, j + 2, depth + 1)
    ELSE IF StartsWith(t, "}}", j)
        THEN IF depth - 1 = 0 THEN [j |-> j + 2, depth |-> 0]
             ELSE MatchClose(t, j + 2, depth - 1)
    ELSE MatchClose(t, j + 1, depth)

\* lines 289-293: the text rendered for the balanced span t[p .. j-1]
RenderSpan(t, p, j) ==
    LET tbody == Strip(SubSeq(t, p + 2, j - 3))
        tparts == split_template_parts(tbody)
    IN render_template(tparts[1], Tail(tparts))

\* one iteration of the scan loop at position p (lines 270-300): the next
\* position, the text appended to out, and whether a template was replaced
\* a literal branch that forgets `i += 1` (line 300)
StepStuck(t, p, m) ==
    IF StartsWith(t, "{{", p) /\ m.depth = 0
    THEN [i |-> m.j, emit |-> RenderSpan(t, p, m.j), changed |-> TRUE]
    ELSE [i |-> p, emit |-> Ch(t, p), changed |-> FALSE]

StepAt(t, p, m) ==
    IF StartsWith(t, "{{", p) /\ m.depth = 0
    THEN [i |-> m.j, emit |-> RenderSpan(t, p, m.j), changed |-> TRUE]
    ELSE [i |-> p + 1, emit |-> Ch(t, p), changed |-> FALSE]

ScanStep(t, p) == StepAt(t, p, MatchClose(t, p, 0))

\* lines 302-304
EndOfPass(o) == Strip(CollapseWs(o))

\* the while loop of lines 270-300 from position p, then lines 302-304
RECURSIVE ScanLoop(_, _, _, _)
ScanOn(t, o, ch, st) == ScanLoop(t, st.i, o \o st.emit, ch \/ st.changed)

ScanLoop(t, p, o, ch) ==
    IF p > Len(t) THEN [s |-> EndOfPass(o), changed |-> ch]
    ELSE ScanOn(t, o, ch, ScanStep(t, p))

\* the for loop of lines 265-308 with `remaining` passes left
RECURSIVE PassLoop(_, _)
AfterPass(r, remaining) ==
    IF r.changed THEN PassLoop(r.s, remaining - 1) ELSE r.s

PassLoop(t, remaining) ==
    IF remaining <= 0 THEN t
    ELSE AfterPass(ScanLoop(t, 1, "", FALSE), remaining)

replace_templates_nested(t, mp) ==
    IF ~Contains(t, "{{") THEN t ELSE PassLoop(t, mp)

(***************************************************************************)
(* The regular expressions of clean_wikitext.  Each operator gives, for a  *)
(* match starting at position p, the position after the match, and 0 when  *)
(* the expression does not match at p.                                     *)
(***************************************************************************)
After(q, len) == IF q = 0 THEN 0 ELSE q + len

\* <!--.*?-->  (DOTALL)
HTML_COMMENT_RE(t, p) ==
    IF StartsWith(t, "<!--", p) THEN After(Find(t, "-->", p + 4), 3) ELSE 0

\* "<tag\b" matched case-insensitively at p
TagOpenAt(t, p, tag) ==
    /\ Ch(t, p) = "<"
    /\ p + Len(tag) <= Len(t)
    /\ Lower(SubSeq(t, p, p + Len(tag))) = "<" \o tag
    /\ LET a == p + 1 + Len(tag) IN a > Len(t) \/ ~IsWordChar(Ch(t, a))

\* <tag\b[^>]*>.*?</tag>  (IGNORECASE, DOTALL); with noSlash the class is [^>/]
TagBlock(t, p, tag, noSlash) ==
    IF ~TagOpenAt(t, p, tag) THEN 0
    ELSE LET a == p + 1 + Len(tag)
             g == Find(t, ">", a)
         IN IF g = 0 \/ (noSlash /\ Contains(SubSeq(t, a, g - 1), "/")) THEN 0
            ELSE After(Find(Lower(t), "</" \o tag \o ">", g + 1), Len(tag) + 3)

REF_BLOCK_RE(t, p) == TagBlock(t, p, "ref", TRUE)
NOWIKI_RE(t, p) == TagBlock(t, p, "nowiki", FALSE)
MATH_RE(t, p) == TagBlock(t, p, "math", FALSE)

\* <ref\b[^>]*/\s*>  (IGNORECASE)
REF_SELF_RE(t, p) ==
    IF ~TagOpenAt(t, p, "ref") THEN 0
    ELSE LET g == Find(t, ">", p + 4) IN
         IF g # 0 /\ EndsWith(RStrip(SubSeq(t, p + 4, g - 1)), "/") THEN g + 1
         ELSE 0

\* \{\|.*?\|\}  (DOTALL)
WIKITABLE_RE(t, p) ==
    IF StartsWith(t, "{|", p) THEN After(Find(t, "|}", p + 2), 2) ELSE 0

\* </?[^>]+>
TAG_RE(t, p) ==
    IF Ch(t, p) = "<"
    THEN LET g == Find(t, ">", p + 1) IN IF g >= p + 2 THEN g + 1 ELSE 0
    ELSE 0

\* the first position >= p holding a character of stops, or Len(t) + 1
RECURSIVE RunEnd(_, _, _)
RunEnd(t, p, stops) ==
    IF p > Len(t) \/ Ch(t, p) \in stops THEN p ELSE RunEnd(t, p + 1, stops)

\* \[\[([^|\]]+)(?:\|([^\]]+))?\]\]  : the match end and the two groups
WIKILINK_RE(t, p) ==
    LET r == RunEnd(t, p + 2, {"|", "]"})
        r2 == RunEnd(t, r + 1, {"]"})
        no == [e |-> 0, g1 |-> "", g2 |-> ""]
    IN IF ~StartsWith(t, "[[", p) \/ r = p + 2 THEN no
       ELSE IF StartsWith(t, "]]", r)
           THEN [e |-> r + 2, g1 |-> SubSeq(t, p + 2, r - 1), g2 |-> ""]
       ELSE IF r <= Len(t) /\ Ch(t, r) = "|" /\ r2 > r + 1 /\ StartsWith(t, "]]", r2)
           THEN [e |-> r2 + 2, g1 |-> SubSeq(t, p + 2, r - 1),
                 g2 |-> SubSeq(t, r + 1, r2 - 1)]
       ELSE no

BAD_LINK_PREFIXES == {"File:", "Image:", "Category:"}

\* _link_sub (lines 333-340)
link_sub(m) ==
    LET target == Strip(m.g1)
        text == Strip(m.g2)
        chosen == IF text # "" THEN text ELSE target
    IN IF \E pre \in BAD_LINK_PREFIXES :
              StartsWith(chosen, pre, 1) \/ StartsWith(target, pre, 1)
       THEN "" ELSE chosen

Quotes(k) == SubSeq("'''''", 1, k)

\* the least q >= p where the k quotes close the run opened before p, with
\* no newline in between ('.' does not match it), or 0
RECURSIVE EmphClose(_, _, _)
EmphClose(t, q, k) ==
    IF q + k - 1 > Len(t) THEN 0
    ELSE IF StartsWith(t, Quotes(k), q) THEN q
    ELSE IF Ch(t, q) = "\n" THEN 0
    ELSE EmphClose(t, q + 1, k)

\* ('{2,5})(.*?)\1 : the match end and group 2, the longest opening run first
RECURSIVE ITALIC_BOLD_RE(_, _, _)
ITALIC_BOLD_RE(t, p, k) ==
    IF k < 2 THEN [e |-> 0, g2 |-> ""]
    ELSE LET q == IF StartsWith(t, Quotes(k), p) THEN EmphClose(t, p + k, k) ELSE 0
         IN IF q # 0 THEN [e |-> q + k, g2 |-> SubSeq(t, p + k, q - 1)]
            ELSE ITALIC_BOLD_RE(t, p, k - 1)

PUNCT == {",", ";", ":", ".", "!", "?"}

\* \s+([,;:.!?])
PUNCT_SPACE_RE(t, p) ==
    IF p <= Len(t) /\ IsSpace(Ch(t, p))
    THEN LET r == Len(t) - Len(LStrip(From(t, p))) + 1 IN
         IF r <= Len(t) /\ Ch(t, r) \in PUNCT THEN r + 1 ELSE 0
    ELSE 0

MatchEnd(re, t, p) ==
    CASE re = "HTML_COMMENT_RE" -> HTML_COMMENT_RE(t, p)
      [] re = "REF_BLOCK_RE" -> REF_BLOCK_RE(t, p)
      [] re = "REF_SELF_RE" -> REF_SELF_RE(t, p)
      [] re = "NOWIKI_RE" -> NOWIKI_RE(t, p)
      [] re = "MATH_RE" -> MATH_RE(t, p)
      [] re = "WIKITABLE_RE" -> WIKITABLE_RE(t, p)
      [] re = "WIKILINK_RE" -> WIKILINK_RE(t, p).e
      [] re = "ITALIC_BOLD_RE" -> ITALIC_BOLD_RE(t, p, 5).e
      [] re = "TAG_RE" -> TAG_RE(t, p)
      [] re = "PUNCT_SPACE_RE" -> PUNCT_SPACE_RE(t, p)

\* the replacement clean_wikitext gives for the match t[p .. e-1]
Replacement(re, t, p, e) ==
    CASE re = "WIKILINK_RE" -> link_sub(WIKILINK_RE(t, p))
      [] re = "ITALIC_BOLD_RE" -> ITALIC_BOLD_RE(t, p, 5).g2
      [] re = "PUNCT_SPACE_RE" -> Ch(t, e - 1)
      [] OTHER -> ""

\* re.sub over t from position p: leftmost, non-overlapping matches
RECURSIVE Sub(_, _, _)
SubAt(re, t, p, e) ==
    IF e # 0 THEN Replacement(re, t, p, e) \o Sub(re, t, e)
    ELSE Ch(t, p) \o Sub(re, t, p + 1)

Sub(re, t, p) ==
    IF p > Len(t) THEN "" ELSE SubAt(re, t, p, MatchEnd(re, t, p))

(***************************************************************************)
(* clean_wikitext                                                          *)
(***************************************************************************)
\* lines 320-327
StripBlocks(t) ==
    LET t1 == Sub("HTML_COMMENT_RE", t, 1)
        t2 == Sub("REF_BLOCK_RE", t1, 1)
        t3 == Sub("REF_SELF_RE", t2, 1)
        t4 == Sub("NOWIKI_RE", t3, 1)
        t5 == Sub("MATH_RE", t4, 1)
    IN Sub("WIKITABLE_RE", t5, 1)

\* lines 342-348
StripInline(t) ==
    Sub("TAG_RE", Sub("ITALIC_BOLD_RE", Sub("WIKILINK_RE", t, 1), 1), 1)

\* lines 351-355
NormalizeSpacing(t) ==
    LET t1 == Strip(CollapseWs(t))
        t2 == Replace(Replace(t1, " )", ")"), "( ", "(")
    IN Sub("PUNCT_SPACE_RE", t2, 1)

\* a cleaner without the check of lines 358-359
KeepText(t) == t

\* lines 358-361
MeaningfulOrEmpty(t) == IF ~Meaningful(t) THEN "" ELSE t

clean_wikitext(t) ==
    IF t = "" THEN ""
    ELSE MeaningfulOrEmpty(NormalizeSpacing(StripInline(
             replace_templates_nested(StripBlocks(t), DefaultMaxPasses))))

(***************************************************************************)
(* Section / senses extraction                                             *)
(***************************************************************************)
\* Optional[...]: None is the empty set, a value v is {v}
NoneVal == {}
Some(v) == {v}
The(o) == CHOOSE v \in o : TRUE

Min(S) == CHOOSE m \in S : \A n \in S : m <= n

\* str.splitlines(): the line breaks are not kept, no last empty line
RECURSIVE Splitlines(_)
Splitlines(t) ==
    IF t = "" THEN <<>>
    ELSE LET b == RunEnd(t, 1, {"\n", "\r", "\f"}) IN
         IF b > Len(t) THEN <<t>>
         ELSE <<SubSeq(t, 1, b - 1)>>
              \o Splitlines(From(t, IF StartsWith(t, "\r\n", b) THEN b + 2 ELSE b + 1))

Equals(n) == SubSeq("====", 1, n)

\* HEAD2_RE / HEAD3_RE / HEAD4_RE .match(t) for n = 2, 3, 4:
\* ^={n}\s*([^=]+?)\s*={n}\s*$ ; the result is group(1).strip(), or None
HEAD_RE(t, n) ==
    LET u == RStrip(t)
        mid == SubSeq(u, n + 1, Len(u) - n)
    IN IF /\ Len(u) >= 2 * n + 1
          /\ StartsWith(u, Equals(n), 1)
          /\ EndsWith(u, Equals(n))
          /\ ~Contains(mid, "=")
       THEN Some(Strip(mid)) ELSE NoneVal

\* lines 382-386: is this line the heading of the English section
IsEnglishHeading(line) == HEAD_RE(Strip(line), 2) = Some("English")

\* lines 392-396: is this line a level-2 heading
IsLevel2Heading(line) == HEAD_RE(Strip(line), 2) # NoneVal

\* line 385: the index of the first line of the section
SectionStart(ls) == Min({k \in 1..Len(ls) : IsEnglishHeading(ls[k])}) + 1

\* a section that runs to the end of the page
SectionEndAtEof(ls, start) == Len(ls) + 1

\* lines 391-396: the index of the line that ends the section
SectionEnd(ls, start) ==
    LET ends == {j \in start..Len(ls) : IsLevel2Heading(ls[j])} IN
    IF ends = {} THEN Len(ls) + 1 ELSE Min(ends)

extract_english_section(w) ==
    IF w = "" THEN NoneVal
    ELSE LET ls == Splitlines(w) IN
         IF \A k \in 1..Len(ls) : ~IsEnglishHeading(ls[k]) THEN NoneVal
         ELSE LET start == SectionStart(ls) IN
              Some(Join(SubSeq(ls, start, SectionEnd(ls, start) - 1), "\n"))

DEFAULT_POS == {"Noun", "Verb", "Adjective", "Adverb", "Proper noun"}

EXAMPLE_PREFIXES == {"#:", "#*", "##:", "##*"}

RECURSIVE StripHashes(_)
StripHashes(t) == IF StartsWith(t, "#", 1) THEN StripHashes(From(t, 2)) ELSE t

\* DEF_MARKER_RE.sub("", line) : ^#+\s*
DEF_MARKER_RE(line) ==
    IF StartsWith(line, "#", 1) THEN LStrip(StripHashes(line)) ELSE line

\* a flush that forgets the cap of line 417
SliceAll(seq, n) == seq

\* a Python slice seq[:n]
SliceTo(seq, n) ==
    LET m == IF n >= 0 THEN n ELSE Len(seq) + n IN
    SubSeq(seq, 1, IF m > Len(seq) THEN Len(seq) ELSE IF m < 0 THEN 0 ELSE m)

\* `if current_pos` : neither None nor the empty string
Truthy(o) == o # NoneVal /\ o # Some("")

\* flush(), lines 414-419, on the scan state st
flush(st, maxdefs) ==
    [st EXCEPT
       !.senses = IF Truthy(st.current_pos) /\ st.current_defs # <<>>
                  THEN Append(@, [pos |-> The(st.current_pos),
                                  definitions |-> SliceTo(st.current_defs, maxdefs)])
                  ELSE @,
       !.current_pos = NoneVal,
       !.current_defs = <<>>]

\* lines 427-428
PosHeading(line) ==
    IF HEAD_RE(line, 3) # NoneVal THEN HEAD_RE(line, 3) ELSE HEAD_RE(line, 4)

\* the branch of the loop body (lines 421-455) that a raw line takes
LineKind(st, raw) ==
    LET line == Strip(raw) IN
    IF line = "" THEN "blank"
    ELSE IF PosHeading(line) # NoneVal THEN "heading"
    ELSE IF ~Truthy(st.current_pos) THEN "no_pos"
    ELSE IF StartsWith(line, "#", 1)
        THEN IF \E pre \in EXAMPLE_PREFIXES : StartsWith(line, pre, 1)
             THEN "example" ELSE "definition"
    ELSE IF StartsWith(line, "==", 1) /\ EndsWith(line, "==") THEN "break"
    ELSE "other"

\* lines 430-433
OnHeading(st, line, allowed, maxdefs) ==
    LET pos == The(PosHeading(line)) IN
    [flush(st, maxdefs) EXCEPT
       !.current_pos = IF pos \in allowed THEN Some(pos) ELSE NoneVal,
       !.current_defs = <<>>]

\* lines 444-449
AppendDefinition(st, text) ==
    IF text # "" /\ Meaningful(text)
    THEN [st EXCEPT !.current_defs = Append(@, text)] ELSE st

OnDefinition(st, line) == AppendDefinition(st, clean_wikitext(DEF_MARKER_RE(line)))

\* the loop body on one raw line; "break" is left to the caller
SenseLine(st, raw, allowed, maxdefs) ==
    LET line == Strip(raw)
        kind == LineKind(st, raw)
    IN IF kind = "heading" THEN OnHeading(st, line, allowed, maxdefs)
       ELSE IF kind = "definition" THEN OnDefinition(st, line)
       ELSE st

ScanStart == [current_pos |-> NoneVal, current_defs |-> <<>>, senses |-> <<>>]

RECURSIVE SenseLoop(_, _, _, _, _)
SenseLoop(st, ls, k, allowed, maxdefs) ==
    IF k > Len(ls) \/ LineKind(st, ls[k]) = "break" THEN flush(st, maxdefs).senses
    ELSE SenseLoop(SenseLine(st, ls[k], allowed, maxdefs), ls, k + 1, allowed, maxdefs)

extract_senses(english_text, allowed, maxdefs) ==
    IF english_text = "" THEN <<>>
    ELSE SenseLoop(ScanStart, Splitlines(english_text), 1, allowed, maxdefs)

\* ALPHA_RE.match(title): ^[A-Za-z]+$ , where $ also matches before a final "\n"
ALPHA_RE(title) ==
    LET core == IF EndsWith(title, "\n") THEN SubSeq(title, 1, Len(title) - 1)
                ELSE title
    IN core # "" /\ \A p \in 1..Len(core) : IsAlpha(Ch(core, p))

(***************************************************************************)
(* The state each component has before it is called.                       *)
(***************************************************************************)
SplitIdle == body = "" /\ parts = <<>>
RenderIdle == name = "" /\ args = <<>> /\ rendered = ""
ExpandIdle ==
    /\ s = "" /\ max_passes = DefaultMaxPasses /\ pass_no = 0
    /\ i = 1 /\ out = "" /\ changed = FALSE
CleanIdle == x = "" /\ cleaned = "" /\ recleaned = ""
SectionIdle == wikitext = "" /\ english = NoneVal
SenseIdle ==
    /\ lines = <<>> /\ ln = 1 /\ current_pos = NoneVal
    /\ current_defs = <<>> /\ senses = <<>>
DefaultMaxDefs == 3
DefaultMinLen == 2
DefaultMaxLen == 25
CfgDefault ==
    /\ allowed_pos = DEFAULT_POS /\ max_defs_per_pos = DefaultMaxDefs
    /\ dedupe = FALSE /\ min_len = DefaultMinLen /\ max_len = DefaultMaxLen
    /\ overwrite = FALSE
MainIdle ==
    /\ stream = <<>>
    /\ total_pages = 0 /\ total_entries = 0 /\ total_defs_records = 0
    /\ counts_by_len = <<>> /\ defs_by_len = <<>>
    /\ seen_words_by_len = <<>> /\ word_files = <<>> /\ def_files = <<>>
    /\ manifest = NoneVal
    /\ root = <<>> /\ page_title = "" /\ page_text = ""

\* every text of at most n characters over the alphabet A
RECURSIVE Strs(_, _)
Strs(A, n) ==
    IF n = 0 THEN {""}
    ELSE LET P == Strs(A, n - 1) IN P \cup {p \o c : p \in P, c \in A}

\* every sequence of at most n elements of S
RECURSIVE Seqs(_, _)
Seqs(S, n) ==
    IF n = 0 THEN {<<>>}
    ELSE LET P == Seqs(S, n - 1) IN P \cup {Append(p, e) : p \in P, e \in S}

(***************************************************************************)
(* split_template_parts, called on a template body                         *)
(***************************************************************************)
MaxBodyLen == 5

SplitBodies ==
    Strs({"a", "|", "{", "}", "[", "]"}, MaxBodyLen)
        \cup {"a|{{b|c}}|d", "a | [[b|c]] |d ", "l|en|[[b|c]]{{d|e}}",
              "abbreviation of|en|I B M"}

InitSplit ==
    /\ pc = "split_call"
    /\ body \in SplitBodies /\ parts = <<>>
    /\ RenderIdle /\ ExpandIdle /\ CleanIdle /\ SectionIdle /\ SenseIdle
    /\ CfgDefault /\ MainIdle

Split ==
    /\ pc = "split_call"
    /\ parts' = split_template_parts(body)
    /\ pc' = "split_ret"
    /\ UNCHANGED <<body, renderVars, expandVars, cleanVars, sectionVars,
                   senseVars, cfgVars, mainVars>>

NextSplit == Split

SpecSplit == InitSplit /\ [][NextSplit]_vars

(***************************************************************************)
(* render_template, called on a name and its arguments                     *)
(***************************************************************************)
MaxArgs == 3

TemplateNames ==
    {"foo", "Foo ", "plural of", "abbr of", "lb", "gloss", "l", "taxon",
     "surname", "en"}

ArgPool == {"", "en", " English ", "bar", "baz"}

\* {{lb|en|a|b|c|d|e|f|g}}: seven labels after the language code
ManyLabels == <<"en", "a", "b", "c", "d", "e", "f", "g">>

InitRender ==
    /\ pc = "render_call"
    /\ name \in TemplateNames
    /\ args \in Seqs(ArgPool, MaxArgs) \cup {ManyLabels}
    /\ rendered = ""
    /\ SplitIdle /\ ExpandIdle /\ CleanIdle /\ SectionIdle /\ SenseIdle
    /\ CfgDefault /\ MainIdle

Render ==
    /\ pc = "render_call"
    /\ rendered' = render_template(name, args)
    /\ pc' = "render_ret"
    /\ UNCHANGED <<name, args, splitVars, expandVars, cleanVars, sectionVars,
                   senseVars, cfgVars, mainVars>>

NextRender == Render

SpecRender == InitRender /\ [][NextRender]_vars

(***************************************************************************)
(* clean_wikitext, called on a text and then on its own result             *)
(***************************************************************************)
MaxCleanLen == 3

CleanTexts ==
    Strs({"a", ".", " ", "(", "{", "}", "|", "[", "]"}, MaxCleanLen)
        \cup {"{{gloss|}}", "{{gloss|a}}", "{{foo|bar|baz}}", "{{plural of|cat}}",
              "[[a|b]] , ''c'' <i>d</i>.", "a<!-- b -->c<ref>d</ref>e<ref n/>",
              "[[[[a]]]]", "a{{||}||}", "{{lb|en|x}} {{l|en|[[y]]}}",
              "[[File:a.png]] ( . )", "{|a|}...", "{{a|{{a|{{a|b}}}}}}"}

InitClean ==
    /\ pc = "clean_call"
    /\ x \in CleanTexts /\ cleaned = "" /\ recleaned = ""
    /\ SplitIdle /\ RenderIdle /\ ExpandIdle /\ SectionIdle /\ SenseIdle
    /\ CfgDefault /\ MainIdle

Clean ==
    /\ pc = "clean_call"
    /\ cleaned' = clean_wikitext(x)
    /\ pc' = "clean_ret"
    /\ UNCHANGED <<x, recleaned, splitVars, renderVars, expandVars, sectionVars,
                   senseVars, cfgVars, mainVars>>

Reclean ==
    /\ pc = "clean_ret"
    /\ recleaned' = clean_wikitext(cleaned)
    /\ pc' = "reclean_ret"
    /\ UNCHANGED <<x, cleaned, splitVars, renderVars, expandVars, sectionVars,
                   senseVars, cfgVars, mainVars>>

NextClean == Clean \/ Reclean

SpecClean == InitClean /\ [][NextClean]_vars

(***************************************************************************)
(* replace_templates_nested, one step of its loops at a time.  pass_no     *)
(* counts the iterations of `for _ in range(max_passes)` begun so far.     *)
(***************************************************************************)
MaxExpandLen == 5
MaxPassBound == 2

ExpandTexts ==
    Strs({"a", "{", "}", "|"}, MaxExpandLen)
        \cup {"{{a|{{b|c}}}}", "{{foo|bar|baz}}", "x {{a|{}}{{a|{b}}}}",
              "{{ {{a|b}}", "{{a|{{a|{{a|b}}}}}}", "a  b", "{{{{gloss|x}}",
              "{{a {{gloss|x}}"}

InitExpand ==
    /\ pc = "expand_call"
    /\ s \in ExpandTexts
    /\ max_passes \in (0..MaxPassBound) \cup {DefaultMaxPasses}
    /\ pass_no = 0 /\ i = 1 /\ out = "" /\ changed = FALSE
    /\ SplitIdle /\ RenderIdle /\ CleanIdle /\ SectionIdle /\ SenseIdle
    /\ CfgDefault /\ MainIdle

ExpandRest == <<splitVars, renderVars, cleanVars, sectionVars, senseVars,
                cfgVars, mainVars>>

\* lines 262-263
ExpandCall ==
    /\ pc = "expand_call"
    /\ pc' = IF ~Contains(s, "{{") THEN "expand_ret" ELSE "expand_for"
    /\ UNCHANGED <<expandVars, ExpandRest>>

\* lines 265-268: the next iteration of the for loop, or its exhaustion
PassBegin ==
    /\ pc = "expand_for"
    /\ IF pass_no < max_passes
       THEN /\ pass_no' = pass_no + 1
            /\ out' = "" /\ i' = 1 /\ changed' = FALSE
            /\ pc' = "expand_scan"
       ELSE /\ pc' = "expand_ret"
            /\ UNCHANGED <<pass_no, out, i, changed>>
    /\ UNCHANGED <<s, max_passes, ExpandRest>>

\* lines 271-297: a balanced template at i is rendered
ScanTemplate ==
    /\ pc = "expand_scan" /\ i <= Len(s)
    /\ ScanStep(s, i).changed
    /\ out' = out \o ScanStep(s, i).emit
    /\ i' = ScanStep(s, i).i
    /\ changed' = TRUE
    /\ UNCHANGED <<pc, s, max_passes, pass_no, ExpandRest>>

\* lines 299-300: the character at i is copied
ScanLiteral ==
    /\ pc = "expand_scan" /\ i <= Len(s)
    /\ ~ScanStep(s, i).changed
    /\ out' = out \o ScanStep(s, i).emit
    /\ i' = ScanStep(s, i).i
    /\ UNCHANGED <<pc, s, max_passes, pass_no, changed, ExpandRest>>

\* lines 302-306
PassEnd ==
    /\ pc = "expand_scan" /\ i > Len(s)
    /\ s' = EndOfPass(out)
    /\ pc' = IF ~changed THEN "expand_ret" ELSE "expand_for"
    /\ UNCHANGED <<max_passes, pass_no, i, out, changed, ExpandRest>>

NextExpand == ExpandCall \/ PassBegin \/ ScanTemplate \/ ScanLiteral \/ PassEnd

SpecExpand == InitExpand /\ [][NextExpand]_vars

(***************************************************************************)
(* extract_senses, one line of the section at a time                       *)
(***************************************************************************)
MaxSenseLines == 3
MaxDefsBound == 1

SenseLinePool ==
    {"===Noun===", "===Pronoun===", "# a", "# b", "# .", "=====Synonyms====="}

SenseTexts ==
    {Join(ls, "\n") : ls \in Seqs(SenseLinePool, MaxSenseLines)}
        \cup {"===Noun===\n# {{plural of|cat}}",
              "===Noun===\n\n#: ex\n## c\nx\n #* q\n# d",
              "===Noun===\n# a\n# b\n# c\n# d\n# e",
              "=== ===\n# a\n===Etymology 1===\n====Verb====\n# [[a|b]]",
              "===Noun===\n# a\n=====Synonyms=====\n===Verb===\n# b",
              "==French==\n===Verb===\n# b\n==Latin==\n===Noun===\n# a"}

InitSenses ==
    /\ pc = "senses_call"
    /\ english \in {Some(t) : t \in SenseTexts} /\ wikitext = ""
    /\ allowed_pos \in {DEFAULT_POS, {"Noun", ""}}
    /\ max_defs_per_pos \in (-1..MaxDefsBound) \cup {DefaultMaxDefs}
    /\ dedupe = FALSE /\ min_len = DefaultMinLen /\ max_len = DefaultMaxLen
    /\ overwrite = FALSE
    /\ SenseIdle
    /\ SplitIdle /\ RenderIdle /\ ExpandIdle /\ CleanIdle /\ MainIdle

SenseRest == <<splitVars, renderVars, expandVars, cleanVars, sectionVars,
               cfgVars, mainVars>>

ScanState ==
    [current_pos |-> current_pos, current_defs |-> current_defs, senses |-> senses]

\* lines 406-412
SensesCall ==
    /\ pc = "senses_call"
    /\ lines' = IF The(english) = "" THEN <<>> ELSE Splitlines(The(english))
    /\ ln' = 1
    /\ current_pos' = NoneVal /\ current_defs' = <<>> /\ senses' = <<>>
    /\ pc' = IF The(english) = "" THEN "senses_ret" ELSE "senses_loop"
    /\ UNCHANGED SenseRest

AtLine(kind) ==
    /\ pc = "senses_loop" /\ ln <= Len(lines)
    /\ LineKind(ScanState, lines[ln]) = kind

\* the loop body on lines[ln], for the branches that go on to the next line
AdvanceTo(st) ==
    /\ current_pos' = st.current_pos
    /\ current_defs' = st.current_defs
    /\ senses' = st.senses
    /\ ln' = ln + 1
    /\ UNCHANGED <<pc, lines, SenseRest>>

Advance == AdvanceTo(SenseLine(ScanState, lines[ln], allowed_pos, max_defs_per_pos))

\* lines 423-424
LineBlank == AtLine("blank") /\ Advance

\* lines 427-434
LineHeading == AtLine("heading") /\ Advance

\* lines 436-437
LineNoPos == AtLine("no_pos") /\ Advance

\* lines 441-442
LineExample == AtLine("example") /\ Advance

\* lines 444-450
LineDefinition == AtLine("definition") /\ Advance

\* the for loop goes on to the next line after line 455 is not taken
LineOther == AtLine("other") /\ Advance

\* lines 454-455, then 457-458
LineBreak ==
    /\ AtLine("break")
    /\ senses' = flush(ScanState, max_defs_per_pos).senses
    /\ current_pos' = NoneVal /\ current_defs' = <<>>
    /\ pc' = "senses_ret"
    /\ UNCHANGED <<lines, ln, SenseRest>>

\* lines 457-458 at the end of the lines
SensesReturn ==
    /\ pc = "senses_loop" /\ ln > Len(lines)
    /\ senses' = flush(ScanState, max_defs_per_pos).senses
    /\ current_pos' = NoneVal /\ current_defs' = <<>>
    /\ pc' = "senses_ret"
    /\ UNCHANGED <<lines, ln, SenseRest>>

NextSenses ==
    \/ SensesCall \/ LineBlank \/ LineHeading \/ LineNoPos \/ LineExample
    \/ LineDefinition \/ LineOther \/ LineBreak \/ SensesReturn

SpecSenses == InitSenses /\ [][NextSenses]_vars

(***************************************************************************)
(* extract_english_section and the extraction from its result, as main     *)
(* calls them on the markup of one page (lines 753-759)                    *)
(***************************************************************************)
MaxPageLines == 3

PageLinePool ==
    {"==English==", "==French==", "===Noun===", "# a", " == English == "}

WikiTexts ==
    {Join(ls, "\n") : ls \in Seqs(PageLinePool, MaxPageLines)}
        \cup {"==English==\n===Noun===\n# {{plural of|cat}}",
              "x\r\n==English==\r\n===Noun===\n# a\n==French==\n# b\n",
              "===English===\n===Noun===\n# a", "==English==", "==English==\n"}

InitSection ==
    /\ pc = "section_call"
    /\ wikitext \in WikiTexts /\ english = NoneVal
    /\ SenseIdle /\ CfgDefault
    /\ SplitIdle /\ RenderIdle /\ ExpandIdle /\ CleanIdle /\ MainIdle

\* line 753
SectionCall ==
    /\ pc = "section_call"
    /\ english' = extract_english_section(wikitext)
    /\ pc' = "section_ret"
    /\ UNCHANGED <<wikitext, senseVars, splitVars, renderVars, expandVars,
                   cleanVars, cfgVars, mainVars>>

\* lines 754-755: `if not english: continue`
SectionSkip ==
    /\ pc = "section_ret" /\ ~Truthy(english)
    /\ pc' = "page_skipped"
    /\ UNCHANGED <<sectionVars, senseVars, splitVars, renderVars, expandVars,
                   cleanVars, cfgVars, mainVars>>

\* line 757
SectionSenses ==
    /\ pc = "section_ret" /\ Truthy(english)
    /\ senses' = extract_senses(The(english), allowed_pos, max_defs_per_pos)
    /\ pc' = "senses_ret"
    /\ UNCHANGED <<sectionVars, lines, ln, current_pos, current_defs, splitVars,
                   renderVars, expandVars, cleanVars, cfgVars, mainVars>>

NextSection == SectionCall \/ SectionSkip \/ SectionSenses

SpecSection == InitSection /\ [][NextSection]_vars

(***************************************************************************)
(* main(): the page loop over the parser's events, and the manifest        *)
(***************************************************************************)
MaxPages == 2

\* a dict as a function on its keys
Get(d, k, default) == IF k \in DOMAIN d THEN d[k] ELSE default
Put(d, k, v) == [kk \in DOMAIN d \cup {k} |-> IF kk = k THEN v ELSE d[kk]]

Page(title, text) == [kind |-> "page", title |-> title, text |-> text]
\* the end of an element that is not a page (line 731)
OtherElement == [kind |-> "element", title |-> "", text |-> ""]
\* input at which ET.iterparse raises ParseError
Malformed == [kind |-> "malformed", title |-> "", text |-> ""]

PluralOfCat == "==English==\n===Noun===\n# {{plural of|cat}}"

PagePool ==
    {Page("cats", PluralOfCat),
     Page("Cats", "==English==\n===Verb===\n# a"),
     Page("cat\n", PluralOfCat),
     Page("c4t", PluralOfCat),
     Page("a", PluralOfCat),
     Page("abcd", "==English==\n===Noun===\n# a\n# b"),
     Page("", PluralOfCat),
     Page("cats", "==French==\n===Noun===\n# a"),
     Page("cats", "==English==\n===Noun===\n# ."),
     Page("cats", "")}

Events == PagePool \cup {OtherElement, Malformed}

Init ==
    /\ pc = "main_loop"
    /\ stream \in Seqs(Events, MaxPages)
    /\ allowed_pos = DEFAULT_POS /\ max_defs_per_pos = DefaultMaxDefs
    /\ dedupe \in BOOLEAN
    /\ overwrite = FALSE
    /\ min_len = DefaultMinLen
    /\ max_len \in IF dedupe THEN {DefaultMaxLen} ELSE {DefaultMaxLen, 3}
    /\ total_pages = 0 /\ total_entries = 0 /\ total_defs_records = 0
    /\ counts_by_len = <<>> /\ defs_by_len = <<>>
    /\ seen_words_by_len = <<>> /\ word_files = <<>> /\ def_files = <<>>
    /\ manifest = NoneVal
    /\ root = <<>> /\ page_title = "" /\ page_text = ""
    /\ SplitIdle /\ RenderIdle /\ ExpandIdle /\ CleanIdle /\ SectionIdle
    /\ SenseIdle

MainRest == <<splitVars, renderVars, expandVars, cleanVars, lines, ln,
              current_pos, current_defs, cfgVars, readerVars>>

\* line 757 on the result of line 753
SensesOf(eng) ==
    IF Truthy(eng) THEN extract_senses(The(eng), allowed_pos, max_defs_per_pos)
    ELSE <<>>

\* lines 763-766
Duplicate(L, word_upper) ==
    dedupe /\ word_upper \in Get(seen_words_by_len, L, {})

\* which `continue` of lines 742-766 the page takes, or "written"
Outcome(title, eng, found) ==
    IF title = "" THEN "no_title"
    ELSE IF ~ALPHA_RE(title) THEN "not_alpha"
    ELSE IF Len(title) < min_len \/ Len(title) > max_len THEN "bad_length"
    ELSE IF ~Truthy(eng) THEN "no_english"
    ELSE IF found = <<>> THEN "no_senses"
    ELSE IF Duplicate(Len(title), Upper(title)) THEN "duplicate"
    ELSE "written"

PageOutcome(title, eng) == Outcome(title, eng, SensesOf(eng))

AtPage(outcome) ==
    /\ pc = "main_loop" /\ stream # <<>> /\ Head(stream).kind = "page"
    /\ PageOutcome(Head(stream).title,
                   extract_english_section(Head(stream).text)) = outcome

\* lines 734-740 and the `continue` taken before line 753
SkipEarly ==
    /\ total_pages' = total_pages + 1
    /\ stream' = Tail(stream)
    /\ UNCHANGED <<pc, sectionVars, senses, total_entries, total_defs_records,
                   counts_by_len, defs_by_len, fileVars, manifest, MainRest>>

\* lines 742-743
MainNoTitle == AtPage("no_title") /\ SkipEarly

\* lines 746-747
MainNotAlpha == AtPage("not_alpha") /\ SkipEarly

\* lines 749-751
MainBadLength == AtPage("bad_length") /\ SkipEarly

ReadSection(eng) ==
    /\ wikitext' = Head(stream).text
    /\ english' = eng
    /\ total_pages' = total_pages + 1
    /\ stream' = Tail(stream)

\* lines 753-755
MainNoEnglish ==
    /\ AtPage("no_english")
    /\ ReadSection(extract_english_section(Head(stream).text))
    /\ UNCHANGED <<pc, senses, total_entries, total_defs_records,
                   counts_by_len, defs_by_len, fileVars, manifest, MainRest>>

ReadSenses(found) ==
    /\ ReadSection(extract_english_section(Head(stream).text))
    /\ senses' = found

\* lines 757-759
MainNoSenses ==
    /\ AtPage("no_senses")
    /\ ReadSenses(<<>>)
    /\ UNCHANGED <<pc, total_entries, total_defs_records,
                   counts_by_len, defs_by_len, fileVars, manifest, MainRest>>

\* lines 763-766
MainDuplicate ==
    /\ AtPage("duplicate")
    /\ ReadSenses(SensesOf(extract_english_section(Head(stream).text)))
    /\ UNCHANGED <<pc, total_entries, total_defs_records,
                   counts_by_len, defs_by_len, fileVars, manifest, MainRest>>

\* lines 702-714: the lines of the file for length L as the run's handle
\* sees them. files[L] is the content of the file in the output directory;
\* the handle is opened at the first write of the run (the run has no count
\* for L yet), with mode "w" (truncate) under --overwrite and "a" otherwise
Opened(files, L) ==
    IF overwrite /\ L \notin DOMAIN counts_by_len THEN <<>>
    ELSE Get(files, L, <<>>)

WriteRecord(L, word_upper, found) ==
    /\ ReadSenses(found)
    /\ seen_words_by_len' =
           IF dedupe
           THEN Put(seen_words_by_len, L,
                    Get(seen_words_by_len, L, {}) \cup {word_upper})
           ELSE seen_words_by_len
    /\ word_files' = Put(word_files, L,
                         Append(Opened(word_files, L), word_upper \o "\n"))
    /\ counts_by_len' = Put(counts_by_len, L, Get(counts_by_len, L, 0) + 1)
    /\ total_entries' = total_entries + 1
    /\ def_files' = Put(def_files, L,
                        Append(Opened(def_files, L),
                               [word |-> word_upper, senses |-> found]))
    /\ defs_by_len' = Put(defs_by_len, L, Get(defs_by_len, L, 0) + 1)
    /\ total_defs_records' = total_defs_records + 1
    /\ UNCHANGED <<pc, manifest, MainRest>>

\* lines 761-783
MainWrite ==
    /\ AtPage("written")
    /\ WriteRecord(Len(Head(stream).title), Upper(Head(stream).title),
                   SensesOf(extract_english_section(Head(stream).text)))

\* lines 731-732
MainOtherElement ==
    /\ pc = "main_loop" /\ stream # <<>> /\ Head(stream).kind = "element"
    /\ stream' = Tail(stream)
    /\ UNCHANGED <<pc, sectionVars, senses, countVars, fileVars, manifest,
                   MainRest>>

\* line 730 raises xml.etree.ElementTree.ParseError: the finally block of
\* lines 810-816 closes the files and the exception leaves main()
MainParseError ==
    /\ pc = "main_loop" /\ stream # <<>> /\ Head(stream).kind = "malformed"
    /\ pc' = "aborted"
    /\ UNCHANGED <<stream, sectionVars, senses, countVars, fileVars, manifest,
                   MainRest>>

\* lines 810-848 once the parser has no more events
MainEnd ==
    /\ pc = "main_loop" /\ stream = <<>>
    /\ manifest' = Some([min_len |-> min_len,
                         max_len |-> max_len,
                         allowed_pos |-> allowed_pos,
                         max_defs_per_pos |-> max_defs_per_pos,
                         total_pages_seen |-> total_pages,
                         total_entries_kept |-> total_entries,
                         total_definition_records |-> total_defs_records,
                         counts_by_length |-> counts_by_len,
                         defs_by_length |-> defs_by_len])
    /\ pc' = "done"
    /\ UNCHANGED <<stream, sectionVars, senses, countVars, fileVars, MainRest>>

Next ==
    \/ MainNoTitle \/ MainNotAlpha \/ MainBadLength \/ MainNoEnglish
    \/ MainNoSenses \/ MainDuplicate \/ MainWrite \/ MainOtherElement
    \/ MainParseError \/ MainEnd

Spec == Init /\ [][Next]_vars

(***************************************************************************)
(* Properties                                                              *)
(***************************************************************************)
ALNUM == "ABCDEFGHIJKLMNOPQRSTUVWXYZabcdefghijklmnopqrstuvwxyz0123456789"

HasAlnum(t) == \E p \in 1..Len(t) : \E q \in 1..Len(ALNUM) : Ch(t, p) = Ch(ALNUM, q)

MinOf(a, b) == IF a < b THEN a ELSE b

\* C1: every Sense that extract_senses returns has a non-empty part of
\* speech and at least one definition, and each of its definitions is
\* non-empty and holds an alphanumeric character, for every section text,
\* allowed set and integer max_defs_per_pos.
C1_SenseInvariant ==
    pc = "senses_ret" =>
        \A k \in 1..Len(senses) :
            /\ senses[k].pos # ""
            /\ senses[k].definitions # <<>>
            /\ \A d \in 1..Len(senses[k].definitions) :
                   /\ senses[k].definitions[d] # ""
                   /\ HasAlnum(senses[k].definitions[d])

PurelyAlphabetic(title) ==
    title # "" /\ \A p \in 1..Len(title) : IsAlpha(Ch(title, p))

OnlyAZ(w) == \A p \in 1..Len(w) : InStr(Ch(w, p), UPPER)

\* the Word Records that the step appends to the defs file of length L
NewRecords(L) ==
    SubSeq(Get(def_files', L, <<>>), Len(Get(def_files, L, <<>>)) + 1,
           Len(Get(def_files', L, <<>>)))

\* C2: with dedupe off, the loop emits exactly one Word Record for a page
\* whose title is non-empty, purely alphabetic and of length within
\* [min_len, max_len] and whose English section yields a Sense, and nothing
\* for any other page; the word is the upper-cased title and holds only the
\* letters A-Z, the senses are the extractor's; "cats" gives "CATS" with one
\* Noun sense ["Plural of cat"].
C2_BuildLoop ==
    [][(~dedupe /\ pc = "main_loop" /\ stream # <<>> /\ Head(stream).kind = "page")
       => LET title == Head(stream).title
              L == Len(title)
              found == SensesOf(extract_english_section(Head(stream).text))
              accepted == /\ PurelyAlphabetic(title)
                          /\ min_len <= L /\ L <= max_len
                          /\ found # <<>>
          IN /\ IF accepted
                THEN /\ NewRecords(L) = <<[word |-> Upper(title), senses |-> found]>>
                     /\ OnlyAZ(Upper(title))
                     /\ \A K \in DOMAIN def_files' \ {L} : NewRecords(K) = <<>>
                     /\ total_entries' = total_entries + 1
                ELSE /\ def_files' = def_files /\ word_files' = word_files
                     /\ total_entries' = total_entries
             /\ (title = "cats" /\ Head(stream).text = PluralOfCat /\ max_len >= 4)
                    => NewRecords(4) =
                           <<[word |-> "CATS",
                              senses |-> <<[pos |-> "Noun",
                                            definitions |-> <<"Plural of cat">>]>>]>>
      ]_vars

\* the meaningful definition lines among ls[from .. to], cleaned, in order
RECURSIVE MeaningfulDefLines(_, _, _)
DefLineText(line) ==
    IF /\ StartsWith(line, "#", 1)
       /\ \A pre \in EXAMPLE_PREFIXES : ~StartsWith(line, pre, 1)
    THEN clean_wikitext(DEF_MARKER_RE(line)) ELSE ""

KeepMeaningful(text, rest) == IF HasAlnum(text) THEN <<text>> \o rest ELSE rest

MeaningfulDefLines(ls, from, to) ==
    IF from > to THEN <<>>
    ELSE KeepMeaningful(DefLineText(Strip(ls[from])),
                        MeaningfulDefLines(ls, from + 1, to))

\* the index of the last part-of-speech heading before line k, 0 if none
LastHeading(ls, k) ==
    LET hs == {j \in 1..(k - 1) : PosHeading(Strip(ls[j])) # NoneVal} IN
    IF hs = {} THEN 0 ELSE CHOOSE j \in hs : \A h \in hs : h <= j

\* C3: with max_defs_per_pos = N >= 1, a part-of-speech section with k
\* meaningful definition lines gives a Sense with exactly min(k, N)
\* definitions, the first min(k, N) of them in source order.
C3_Cap ==
    /\ []((pc = "senses_loop" /\ Truthy(current_pos)) =>
              current_defs =
                  MeaningfulDefLines(lines, LastHeading(lines, ln) + 1, ln - 1))
    /\ [][(max_defs_per_pos >= 1 /\ senses' # senses) =>
              /\ Truthy(current_pos)
              /\ senses' =
                     Append(senses,
                            [pos |-> The(current_pos),
                             definitions |->
                                 SubSeq(current_defs, 1,
                                        MinOf(Len(current_defs), max_defs_per_pos))])
         ]_vars

\* C3: five definition lines under the default cap of 3
C3_Witness ==
    /\ pc = "senses_ret"
    /\ english = Some("===Noun===\n# a\n# b\n# c\n# d\n# e")
    /\ max_defs_per_pos = 3
    /\ senses = <<[pos |-> "Noun", definitions |-> <<"a", "b", "c">>]>>

\* the lines of the page between the first level-2 "English" heading and
\* the next level-2 heading, as a set of at most one sequence of lines
EnglishLines(w) ==
    LET ls == Splitlines(w)
        heads == {k \in 1..Len(ls) : HEAD_RE(Strip(ls[k]), 2) = Some("English")}
    IN IF heads = {} THEN NoneVal
       ELSE LET h == Min(heads)
                nxt == {j \in (h + 1)..Len(ls) : HEAD_RE(Strip(ls[j]), 2) # NoneVal}
                e == IF nxt = {} THEN Len(ls) + 1 ELSE Min(nxt)
            IN Some(SubSeq(ls, h + 1, e - 1))

\* C4: extract_english_section returns exactly the lines strictly between
\* the first level-2 heading "English" and the next level-2 heading (or the
\* end of the text), only these lines give definitions, and a page with no
\* such heading contributes no record.
C4_SectionIsolation ==
    pc # "section_call" =>
        IF EnglishLines(wikitext) = NoneVal
        THEN english = NoneVal /\ senses = <<>> /\ pc # "senses_ret"
        ELSE /\ english = Some(Join(The(EnglishLines(wikitext)), "\n"))
             /\ pc = "senses_ret" =>
                    senses = extract_senses(Join(The(EnglishLines(wikitext)), "\n"),
                                            allowed_pos, max_defs_per_pos)

\* C4: a line before the English heading and a French section after it
C4_Witness ==
    /\ pc = "senses_ret"
    /\ wikitext = "x\r\n==English==\r\n===Noun===\n# a\n==French==\n# b\n"
    /\ english = Some("===Noun===\n# a")
    /\ senses = <<[pos |-> "Noun", definitions |-> <<"a">>]>>

\* C5: clean_wikitext is idempotent: cleaning a cleaned text changes nothing.
C5_Idempotent == pc = "reclean_ret" => recleaned = cleaned

\* the order of the triples of naturals, first component first
LexLess(a, b) ==
    \/ a[1] < b[1]
    \/ a[1] = b[1] /\ a[2] < b[2]
    \/ a[1] = b[1] /\ a[2] = b[2] /\ a[3] < b[3]

\* passes still to begin, the place in the pass, characters still to scan
Measure ==
    CASE pc = "expand_call" -> <<max_passes + 1, 0, 0>>
      [] pc = "expand_for" -> <<max_passes - pass_no, 1, 0>>
      [] pc = "expand_scan" -> <<max_passes - pass_no, 2, Len(s) + 1 - i>>
      [] OTHER -> <<0, 0, 0>>

\* C6: replace_templates_nested terminates on every input: it begins at
\* most max_passes passes, every step of a pass moves the scan position
\* forward and a pass ends only at the end of the string, the run stops
\* after the first pass without a substitution, and every step lowers a
\* measure in a well-founded order, so no run goes on for ever.
C6_Terminates ==
    /\ [](/\ pc \in {"expand_call", "expand_for", "expand_scan", "expand_ret"}
          /\ pass_no <= max_passes
          /\ \A k \in 1..3 : Measure[k] \in Nat)
    /\ [][/\ LexLess(Measure', Measure)
          /\ (pc = "expand_scan" /\ pc' = "expand_scan") => i' > i
          /\ (pc = "expand_scan" /\ pc' # "expand_scan") => i > Len(s)
          /\ (pc = "expand_scan" /\ i > Len(s) /\ ~changed) => pc' = "expand_ret"
          /\ (pc = "expand_scan" /\ i > Len(s) /\ changed /\ pass_no < max_passes)
                 => pc' = "expand_for"
         ]_vars

\* C6: nesting deeper than the budget: the run ends with a template left
C6_Witness ==
    /\ pc = "expand_ret" /\ max_passes = 2 /\ pass_no = max_passes
    /\ changed /\ s = "{{a|b}}"

\* the positions of the "|" of t from p on that lie outside every {{ }} and
\* every [[ ]] span, the two depths counted each on its own
RECURSIVE Cuts(_, _, _, _)
Cuts(t, p, dt, dl) ==
    IF p > Len(t) THEN {}
    ELSE IF StartsWith(t, "{{", p) THEN Cuts(t, p + 2, dt + 1, dl)
    ELSE IF StartsWith(t, "}}", p) /\ dt > 0 THEN Cuts(t, p + 2, dt - 1, dl)
    ELSE IF StartsWith(t, "[[", p) THEN Cuts(t, p + 2, dt, dl + 1)
    ELSE IF StartsWith(t, "]]", p) /\ dl > 0 THEN Cuts(t, p + 2, dt, dl - 1)
    ELSE (IF Ch(t, p) = "|" /\ dt = 0 /\ dl = 0 THEN {p} ELSE {})
             \cup Cuts(t, p + 1, dt, dl)

\* the k-th piece of t between the consecutive positions of bs
Piece(t, bs, b) == Strip(SubSeq(t, b + 1, Min({c \in bs : c > b}) - 1))

\* C7: split_template_parts cuts the body at exactly the "|" outside every
\* nested {{ }} and [[ ]] span, keeps the nested spans as they are inside
\* their part and returns the parts in order: "a|{{b|c}}|d" gives "a",
\* "{{b|c}}", "d".
C7_SplitNesting ==
    pc = "split_ret" =>
        LET bs == Cuts(body, 1, 0, 0) \cup {0, Len(body) + 1} IN
        /\ Len(parts) = Cardinality(bs) - 1
        /\ \A b \in bs \ {Len(body) + 1} :
               parts[Cardinality({c \in bs : c <= b})] = Piece(body, bs, b)
        /\ body = "a|{{b|c}}|d" => parts = <<"a", "{{b|c}}", "d">>

\* C7: the body of the example has been split
C7_Witness ==
    pc = "split_ret" /\ body = "a|{{b|c}}|d" /\ parts = <<"a", "{{b|c}}", "d">>

\* C8: clean_wikitext returns the empty string or a text with an
\* alphanumeric character; "{{gloss|}}" gives the empty string.
C8_Meaningful ==
    pc = "clean_ret" =>
        /\ cleaned = "" \/ HasAlnum(cleaned)
        /\ x = "{{gloss|}}" => cleaned = ""

\* C8: the gloss template with an empty argument has been cleaned
C8_Witness == pc = "clean_ret" /\ x = "{{gloss|}}" /\ cleaned = ""

\* the first argument that is not empty, stripped, or ""
RECURSIVE FirstNonEmpty(_)
FirstNonEmpty(a) ==
    IF a = <<>> THEN ""
    ELSE IF Strip(Head(a)) # "" THEN Strip(Head(a))
    ELSE FirstNonEmpty(Tail(a))

\* C9: for a template name that no rendering rule knows, render_template
\* returns the first non-empty argument after a leading language code is
\* dropped, and "" when there are no arguments; {{foo|bar|baz}} gives "bar".
C9_UnknownFallback ==
    (pc = "render_ret" /\ Lower(Strip(name)) \notin KnownNames) =>
        /\ rendered = FirstNonEmpty(drop_lang_prefix(args))
        /\ (name = "foo" /\ args = <<"bar", "baz">>) => rendered = "bar"

\* C10: a malformed entry of the page stream is skipped: the run does not
\* abort, every entry after it is read, and the run ends with the manifest
\* written.
C10_MalformedSkipped ==
    /\ pc \in {"main_loop", "done"}
    /\ pc = "done" => stream = <<>> /\ manifest # NoneVal

\* ---------------------------------------------------------------------------
\* C11: the streaming reader (iter_pages_from_bz2 and lines 729-740 of main)
\* ---------------------------------------------------------------------------

MaxStreamPages == 3

StreamPool == {Page("cat", "==English=="), Page("", "x"), OtherElement, Malformed}

\* a <page> element as the parser hangs it under the root of its tree
Element(e) == [title |-> e.title, text |-> e.text, cleared |-> FALSE]

\* elem.clear(): children, text and attributes are dropped, the element stays
\* where it is in the tree
Clear(el) == [title |-> "", text |-> "", cleared |-> TRUE]

InitStream ==
    /\ pc = "stream_next"
    /\ stream \in Seqs(StreamPool, MaxStreamPages)
    /\ root = <<>> /\ page_title = "" /\ page_text = ""
    /\ total_pages = 0 /\ total_entries = 0 /\ total_defs_records = 0
    /\ counts_by_len = <<>> /\ defs_by_len = <<>>
    /\ seen_words_by_len = <<>> /\ word_files = <<>> /\ def_files = <<>>
    /\ manifest = NoneVal
    /\ CfgDefault
    /\ SplitIdle /\ RenderIdle /\ ExpandIdle /\ CleanIdle /\ SectionIdle
    /\ SenseIdle

StreamRest == <<splitVars, renderVars, expandVars, cleanVars, sectionVars,
                senseVars, cfgVars, total_entries, total_defs_records,
                counts_by_len, defs_by_len, fileVars, manifest>>

\* the parser reaches "</page>": the finished element is in the tree and is
\* handed to the loop (line 730, the test of line 731 fails)
StreamPageEnd ==
    /\ pc = "stream_next" /\ stream # <<>> /\ Head(stream).kind = "page"
    /\ root' = Append(root, Element(Head(stream)))
    /\ stream' = Tail(stream)
    /\ pc' = "stream_page"
    /\ UNCHANGED <<page_title, page_text, total_pages, StreamRest>>

\* the end of any other element: lines 731-732
StreamOtherEnd ==
    /\ pc = "stream_next" /\ stream # <<>> /\ Head(stream).kind = "element"
    /\ stream' = Tail(stream)
    /\ UNCHANGED <<pc, root, page_title, page_text, total_pages, StreamRest>>

\* the parser raises on malformed XML
StreamParseError ==
    /\ pc = "stream_next" /\ stream # <<>> /\ Head(stream).kind = "malformed"
    /\ pc' = "aborted"
    /\ UNCHANGED <<stream, root, page_title, page_text, total_pages, StreamRest>>

\* lines 734-740: count the page, read title and text, elem.clear()
StreamReadClear ==
    /\ pc = "stream_page"
    /\ total_pages' = total_pages + 1
    /\ page_title' = root[Len(root)].title
    /\ page_text' = root[Len(root)].text
    /\ root' = [root EXCEPT ![Len(root)] = Clear(@)]
    /\ pc' = "stream_next"
    /\ UNCHANGED <<stream, StreamRest>>

\* the input is exhausted
StreamEnd ==
    /\ pc = "stream_next" /\ stream = <<>>
    /\ pc' = "done"
    /\ UNCHANGED <<stream, root, page_title, page_text, total_pages, StreamRest>>

NextStream ==
    \/ StreamPageEnd
    \/ StreamOtherEnd
    \/ StreamParseError
    \/ StreamReadClear
    \/ StreamEnd

SpecStream == InitStream /\ [][NextStream]_vars

\* the page elements of the tree that still hold their title and markup
Uncleared == {k \in 1..Len(root) : ~root[k].cleared}

\* C11: at every point of the page loop the tree holds the title and markup
\* of at most one page, every page element has been read and cleared when
\* the next one is requested, and what the reader holds does not grow with
\* the number of pages already processed (never more than one page element)
C11_StreamingBound ==
    /\ Cardinality(Uncleared) <= 1
    /\ (pc = "stream_next" => Uncleared = {})
    /\ Len(root) <= 1

\* ---------------------------------------------------------------------------
\* C12: the build run again over the output directory of an earlier run
\* ---------------------------------------------------------------------------

MaxWritten == 2

RECURSIVE SumLen(_, _)
SumLen(files, Ls) ==
    IF Ls = {} THEN 0
    ELSE LET L == CHOOSE K \in Ls : TRUE
         IN Len(files[L]) + SumLen(files, Ls \ {L})

\* the number of words in the output directory
Written == SumLen(word_files, DOMAIN word_files)

RerunStreams ==
    {<<Page("cats", PluralOfCat)>>, <<Page("Cats", "==English==\n===Verb===\n# a")>>}

\* main() is started again with the same --out: the state of lines 690-702 is
\* built anew (no handle, an empty seen_words_by_len, zero counters), the
\* files of the output directory are as the earlier run left them
MainRerun ==
    /\ pc = "done" /\ Written < MaxWritten
    /\ pc' = "main_loop"
    /\ stream' \in RerunStreams
    /\ overwrite' \in BOOLEAN
    /\ seen_words_by_len' = <<>>
    /\ counts_by_len' = <<>> /\ defs_by_len' = <<>>
    /\ total_pages' = 0 /\ total_entries' = 0 /\ total_defs_records' = 0
    /\ wikitext' = "" /\ english' = NoneVal /\ senses' = <<>>
    /\ UNCHANGED <<word_files, def_files, manifest, allowed_pos,
                   max_defs_per_pos, dedupe, min_len, max_len, splitVars,
                   renderVars, expandVars, cleanVars, lines, ln, current_pos,
                   current_defs, readerVars>>

NextRerun ==
    \/ Next
    \/ MainRerun

SpecRerun == Init /\ [][NextRerun]_vars

\* no element occurs twice in the sequence
NoRepeat(sq) == \A a, b \in 1..Len(sq) : sq[a] = sq[b] => a = b

WordsOf(records) == [k \in 1..Len(records) |-> records[k].word]

\* C12: with --dedupe a word is written at most once to its words-{L} file
\* and to its defs-{L} file, also when the build is run again in append mode
\* over an output directory that already holds the word
C12_DedupeOnce ==
    dedupe =>
        /\ \A L \in DOMAIN word_files : NoRepeat(word_files[L])
        /\ \A L \in DOMAIN def_files : NoRepeat(WordsOf(def_files[L]))

\* C13: a relation-of template renders "<phrase> <target>" and a link or
\* mention template renders "<target>", where the target is the first
\* non-empty argument after a leading language code is dropped: the language
\* code is not the target when a later non-empty argument exists, as in
\* {{plural of|en|bar}} -> "Plural of bar" and {{l|en|bar}} -> "bar".
C13_TargetAfterLang ==
    (pc = "render_ret" /\ FirstNonEmpty(drop_lang_prefix(args)) # "") =>
        /\ Lower(Strip(name)) \in DOMAIN RelationPhrase =>
               rendered = RelationPhrase[Lower(Strip(name))] \o " "
                              \o FirstNonEmpty(drop_lang_prefix(args))
        /\ Lower(Strip(name)) \in LinkNames =>
               rendered = FirstNonEmpty(drop_lang_prefix(args))

\* the nesting depth of the "{{" ... "}}" pairs of t, read as lines 273-286
\* read them, or -1 when t is not balanced
RECURSIVE NestScan(_, _, _, _)
NestScan(t, j, depth, deepest) ==
    IF j > Len(t) THEN (IF depth = 0 THEN deepest ELSE -1)
    ELSE IF StartsWith(t, "{{", j)
        THEN NestScan(t, j + 2, depth + 1,
                      IF depth + 1 > deepest THEN depth + 1 ELSE deepest)
    ELSE IF StartsWith(t, "}}", j)
        THEN IF depth = 0 THEN -1 ELSE NestScan(t, j + 2, depth - 1, deepest)
    ELSE NestScan(t, j + 1, depth, deepest)

NestDepth(t) == NestScan(t, 1, 0, 0)

\* the scan is about to render the balanced invocation at i
AtInvocation ==
    /\ pc = "expand_scan" /\ i <= Len(s)
    /\ StartsWith(s, "{{", i) /\ MatchClose(s, i, 0).depth = 0

\* the text between the "{{" at i and its matching "}}"
InvocationBody == SubSeq(s, i + 2, MatchClose(s, i, 0).j - 3)

ArgsAlreadyRendered == AtInvocation => ~Contains(InvocationBody, "{{")

ResolvedWithinDepth ==
    (pc = "expand_call" /\ NestDepth(s) >= 0 /\ NestDepth(s) <= max_passes)
        => ~Contains(replace_templates_nested(s, max_passes), "{{")

\* C14: a template nested in an argument is rendered on an earlier pass than
\* the template around it: whenever an invocation is rendered its arguments
\* hold no template invocation, and a balanced input nested no deeper than
\* max_passes comes out with every template resolved
C14_InnerFirst == ArgsAlreadyRendered /\ ResolvedWithinDepth

\* the scan stands on a "{{" that has no matching "}}"
AtUnbalanced ==
    /\ pc = "expand_scan" /\ i <= Len(s)
    /\ StartsWith(s, "{{", i) /\ MatchClose(s, i, 0).depth # 0

\* the rest of the pass gives what it gives when the marker is put out as it
\* is and the text after the marker is scanned
MarkerKept ==
    ScanLoop(s, i, out, changed).s
        = ScanLoop(SubSeq(s, i + 2, Len(s)), 1, out \o "{{", changed).s

\* the law for a marker that no third "{" follows
UnbalancedLoneMarker ==
    (AtUnbalanced /\ ~StartsWith(s, "{", i + 2)) => MarkerKept

\* C15: at a "{{" without a matching close the pass fails on nothing, keeps
\* the marker as literal text of its output and renders every balanced
\* template of the text after the marker: "{{a {{gloss|x}}" -> "{{a (x)"
C15_UnbalancedLiteral == AtUnbalanced => MarkerKept

\* a heading line of any level: "==" ... "=="
IsHeadingLine(line) == StartsWith(line, "==", 1) /\ EndsWith(line, "==")

\* the state a heading line leads to: InPOS(text) for a part-of-speech
\* heading whose text is allowed, NoActivePOS (None) for any other heading
EnteredPos(line, allowed) ==
    IF PosHeading(line) # NoneVal /\ The(PosHeading(line)) \in allowed
    THEN PosHeading(line) ELSE NoneVal

\* the part of speech of a finished Sense: the state had a definition
Finished(cur, has) == IF cur # NoneVal /\ has THEN <<The(cur)>> ELSE <<>>

\* the parts of speech, in document order, of the allowed headings of
\* ls[k ..] that a meaningful definition line follows before the next heading
RECURSIVE PosWithDefinitions(_, _, _, _, _)
PosWithDefinitions(ls, k, cur, has, allowed) ==
    IF k > Len(ls) THEN Finished(cur, has)
    ELSE IF IsHeadingLine(Strip(ls[k]))
        THEN Finished(cur, has)
                 \o PosWithDefinitions(ls, k + 1,
                                       EnteredPos(Strip(ls[k]), allowed),
                                       FALSE, allowed)
    ELSE PosWithDefinitions(ls, k + 1, cur,
                            has \/ (cur # NoneVal
                                    /\ HasAlnum(DefLineText(Strip(ls[k])))),
                            allowed)

PosOf(ss) == [k \in 1..Len(ss) |-> ss[k].pos]

\* C16: every heading line flushes the definitions gathered so far and leads
\* to InPOS(text) or NoActivePOS, so the returned list holds, in document
\* order, exactly one Sense for each allowed part-of-speech heading that a
\* meaningful definition line follows before the next heading, and no Sense
\* with a part of speech outside the allowed set
C16_HeadingFlush ==
    pc = "senses_ret" =>
        /\ PosOf(senses) = PosWithDefinitions(lines, 1, NoneVal, FALSE, allowed_pos)
        /\ \A k \in 1..Len(senses) : senses[k].pos \in allowed_pos

\* the scan of extract_senses stands on a line of the section
OnLine == pc = "senses_loop" /\ ln <= Len(lines)

\* the line is a level-2 heading "==X=="
IsLevel2Line(raw) == HEAD_RE(Strip(raw), 2) # NoneVal

StopsOnlyAtLevel2 ==
    [][(OnLine /\ pc' = "senses_ret") => IsLevel2Line(lines[ln])]_vars

StopsAtLevel2 ==
    [][(OnLine /\ IsLevel2Line(lines[ln])) => pc' = "senses_ret"]_vars

\* C17: the scan ends before the last line when, and only when, the line it
\* stands on is a level-2 heading, with or without an active part of
\* speech; a deeper heading such as "=====Synonyms=====" does not end it
C17_EarlyStop ==
    [][OnLine => (pc' = "senses_ret" <=> IsLevel2Line(lines[ln]))]_vars

\* C18: a label template (lb, lbl, label, labels) renders all of its
\* non-empty arguments after a leading language code, joined with ", " and
\* wrapped in parentheses, however many there are, and "" when it has none
C18_AllLabels ==
    (pc = "render_ret" /\ Lower(Strip(name)) \in LabelNames) =>
        rendered =
            IF StripNonEmpty(drop_lang_prefix(args)) = <<>> THEN ""
            ELSE "(" \o Join(StripNonEmpty(drop_lang_prefix(args)), ", ") \o ")"

====
